---- MODULE Spec2Model ----
(***************************************************************************)
(* Model of src/src/Chart.tsx: the pure derivation calculatePortfolioValue *)
(* and the PortfolioValueChart component's fetch / derive effects.         *)
(*                                                                         *)
(* A date string "YYYY-MM-DD" is the record [y, m, d].  Times are kept in  *)
(* seconds instead of milliseconds (every getTime() of the source is a     *)
(* whole number of seconds times 1000, and only differences and orderings  *)
(* of them are used), which keeps the numbers inside TLC's integers.       *)
(***************************************************************************)
EXTENDS Integers, Sequences, FiniteSets, TLC

VARIABLES
    \* ---- calculatePortfolioValue, called directly
    transactions,      \* the array passed as first argument
    stockPrices,       \* the object passed as second argument
    portfolioValues,   \* the array returned by the latest call
    firstValues,       \* the array returned by the first call
    givenTransactions, \* the first argument as it was before any call
    givenStockPrices,  \* the second argument as it was before any call
    pc,                \* "ready", "called" (once), "recalled" (twice); "idle" in CompSpec
    calls,             \* how many calls the caller makes: 1 in Spec, 2 in TwiceSpec
    \* ---- PortfolioValueChart
    phase,             \* "rendered" (first render done, effects not run), "mounted"; "off" in Spec
    fetchState,        \* "none", "pending", "parsing", "resolved", "failed"
    response,          \* what the network delivered: [kind, ok, json]
    stockPricesState,  \* useState stockPrices: [isNull, version, data]
    portfolioData,     \* useState portfolioData
    renderQueued,      \* a state setter has scheduled a re-render
    effectDeps,        \* version of stockPrices the derive effect last ran with
    counters           \* [fetches, priceSets, derivations, logged]: calls of fetch,
                       \* changes of the stockPrices state, runs of the
                       \* derivation, console.error calls

vars == <<transactions, stockPrices, portfolioValues, firstValues,
          givenTransactions, givenStockPrices, pc, calls,
          phase, fetchState, response, stockPricesState, portfolioData,
          renderQueued, effectDeps, counters>>

funcVars == <<transactions, stockPrices, portfolioValues, firstValues,
              givenTransactions, givenStockPrices, pc, calls>>

compVars == <<phase, fetchState, response, stockPricesState, portfolioData,
              renderQueued, effectDeps, counters>>

(***************************************************************************)
(* Bounds and input domains                                                *)
(***************************************************************************)
MaxTx == 2          \* longest transaction array
MaxKeys == 2        \* most entries of a price object

SecondsPerDay == 24 * 60 * 60
FirstEpoch == 1609718400            \* 2021-01-04T00:00:00Z

Date(y, m, d) == [y |-> y, m |-> m, d |-> d]

TxDates == {Date(2021, 1, 4), Date(2021, 1, 5)}
Quantities == {1, 2}
Actions == {"B", "S"}
Closes == {0, 2}
\* start of 2021-01-04, last second of 2021-01-04, noon of 2021-01-05
Timestamps == {FirstEpoch, FirstEpoch + SecondsPerDay - 1,
               FirstEpoch + SecondsPerDay + 12 * 60 * 60}
\* property names of a price object with n entries: epoch-second strings, all
\* of them array indices
PriceKeys(n) == {FirstEpoch + k : k \in 0 .. n - 1}

TransactionT == [action : Actions, date : TxDates, quantity : Quantities]
PriceDataT == [close : Closes, timestamp : Timestamps]

TransactionLists == UNION {[1 .. n -> TransactionT] : n \in 0 .. MaxTx}
PriceObjects == UNION {[PriceKeys(n) -> PriceDataT] : n \in 0 .. MaxKeys}

(***************************************************************************)
(* Dates: Date.prototype.toISOString and Date.parse of a date-only string  *)
(***************************************************************************)
\* days since 1970-01-01 of the proleptic Gregorian date y-m-d
DaysFromCivil(y, m, d) ==
    LET yy == IF m <= 2 THEN y - 1 ELSE y
        era == yy \div 400
        yoe == yy - era * 400
        mp == IF m > 2 THEN m - 3 ELSE m + 9
        doy == (153 * mp + 2) \div 5 + d - 1
        doe == yoe * 365 + yoe \div 4 - yoe \div 100 + doy
    IN  era * 146097 + doe - 719468

\* the proleptic Gregorian date of day number z
CivilFromDays(z) ==
    LET zz == z + 719468
        era == zz \div 146097
        doe == zz - era * 146097
        yoe == (doe - doe \div 1460 + doe \div 36524 - doe \div 146096) \div 365
        doy == doe - (365 * yoe + yoe \div 4 - yoe \div 100)
        mp == (5 * doy + 2) \div 153
        d == doy - (153 * mp + 2) \div 5 + 1
        m == IF mp < 10 THEN mp + 3 ELSE mp - 9
        y == yoe + era * 400 + (IF m <= 2 THEN 1 ELSE 0)
    IN  Date(y, m, d)

\* new Date(s).getTime(), in seconds: a date-only string is midnight UTC
getTime(date) == DaysFromCivil(date.y, date.m, date.d) * SecondsPerDay

\* new Date(epoch * 1000).toISOString().split('T')[0]
formatDate(epoch) == CivilFromDays(epoch \div SecondsPerDay)

(***************************************************************************)
(* Arrays, objects and sets of the runtime                                 *)
(***************************************************************************)
\* Array.prototype.sort with the comparator (a, b) => time[a] - time[b]: stable
ArraySort(arr, time) ==
    LET sorted[n \in 0 .. Len(arr)] ==
            IF n = 0 THEN <<>>
            ELSE LET front == sorted[n - 1]
                     x == arr[n]
                     \* x goes after every element that does not compare greater than it
                     after == {i \in 1 .. Len(front) : time[front[i]] - time[x] <= 0}
                     pos == IF after = {} THEN 0
                            ELSE CHOOSE i \in after : \A j \in after : j <= i
                 IN  SubSeq(front, 1, pos) \o <<x>> \o SubSeq(front, pos + 1, Len(front))
    IN  sorted[Len(arr)]

Elements(arr) == {arr[i] : i \in DOMAIN arr}

\* Object.entries of an object whose property names are all array indices:
\* ascending numeric order of the names
ObjectEntries(obj) ==
    LET names == DOMAIN obj
        nth(i) == CHOOSE k \in names : Cardinality({j \in names : j < k}) = i - 1
    IN  [i \in 1 .. Cardinality(names) |->
            LET k == nth(i) IN [key |-> k, value |-> obj[k]]]

\* An object with string (non-index) property names is the sequence of its
\* [key, value] properties in insertion order.
HasOwn(o, k) == \E i \in DOMAIN o : o[i].key = k
Get(o, k) == o[CHOOSE i \in DOMAIN o : o[i].key = k].value
ObjectKeys(o) == [i \in DOMAIN o |-> o[i].key]

SetPropertyKeepFirst(o, k, v) ==
    IF HasOwn(o, k) THEN o ELSE Append(o, [key |-> k, value |-> v])

\* o[k] = v
SetProperty(o, k, v) ==
    IF HasOwn(o, k)
    THEN [i \in DOMAIN o |-> IF o[i].key = k THEN [key |-> k, value |-> v] ELSE o[i]]
    ELSE Append(o, [key |-> k, value |-> v])

\* Array.from(new Set(arr)): first occurrences, in insertion order
RECURSIVE ArrayFromSet(_)
ArrayFromSet(arr) ==
    IF arr = <<>> THEN <<>>
    ELSE LET n == Len(arr)
             front == ArrayFromSet(SubSeq(arr, 1, n - 1))
         IN  IF \E i \in DOMAIN front : front[i] = arr[n] THEN front
             ELSE Append(front, arr[n])

(***************************************************************************)
(* calculatePortfolioValue                                                 *)
(***************************************************************************)
SortedInPlace(txs) ==
    ArraySort(txs, [t \in Elements(txs) |-> getTime(t.date)])

\* const sortedTransactions = [...transactions].sort(
\*     (a, b) => new Date(a.date).getTime() - new Date(b.date).getTime())
SortedTransactions(txs) ==
    LET copy == [i \in 1 .. Len(txs) |-> txs[i]]
    IN  ArraySort(copy, [t \in Elements(copy) |-> getTime(t.date)])

\* The caller's array after the call: the sort works on the spread copy, so
\* the argument keeps its content and order.
ArgumentAfterCall(txs) == txs

\* Object.entries(stockPrices).forEach(... formattedStockPrices[dateKey] = close)
FormattedStockPrices(prices) ==
    LET entries == ObjectEntries(prices)
        formatted[n \in 0 .. Len(entries)] ==
            IF n = 0 THEN <<>>
            ELSE SetProperty(formatted[n - 1],
                             formatDate(entries[n].value.timestamp),
                             entries[n].value.close)
    IN  formatted[Len(entries)]

AllDatesPricedOnly(sortedTransactions, formattedStockPrices) ==
    ArrayFromSet(ObjectKeys(formattedStockPrices))

AllDatesTransactedOnly(sortedTransactions, formattedStockPrices) ==
    ArrayFromSet([i \in 1 .. Len(sortedTransactions) |-> sortedTransactions[i].date])

\* new Set([...sortedTransactions.map(t => t.date), ...Object.keys(formattedStockPrices)])
AllDates(sortedTransactions, formattedStockPrices) ==
    ArrayFromSet([i \in 1 .. Len(sortedTransactions) |-> sortedTransactions[i].date]
                 \o ObjectKeys(formattedStockPrices))

SortedDatesUnsorted(allDates) == allDates

\* Array.from(allDates).sort((a, b) => new Date(a).getTime() - new Date(b).getTime())
SortedDates(allDates) ==
    ArraySort(allDates, [date \in Elements(allDates) |-> getTime(date)])

ApplyTransactionBuyOnly(currentShares, transaction) ==
    IF transaction.action = "B" THEN currentShares + transaction.quantity
    ELSE currentShares

ApplyTransactionNoShort(currentShares, transaction) ==
    IF transaction.action = "B" THEN currentShares + transaction.quantity
    ELSE IF currentShares >= transaction.quantity
         THEN currentShares - transaction.quantity
         ELSE 0

\* the body of the inner forEach
ApplyTransaction(currentShares, transaction) ==
    IF transaction.action = "B" THEN currentShares + transaction.quantity
    ELSE IF transaction.action = "S" THEN currentShares - transaction.quantity
    ELSE currentShares

\* sortedTransactions.filter(t => t.date === date).forEach(...)
SharesAfterDate(currentShares, sortedTransactions, date) ==
    LET onDate(t) == t.date = date
        todays == SelectSeq(sortedTransactions, onDate)
        shares[n \in 0 .. Len(todays)] ==
            IF n = 0 THEN currentShares
            ELSE ApplyTransaction(shares[n - 1], todays[n])
    IN  shares[Len(todays)]

ShouldEmitAnyHolding(formattedStockPrices, date, currentShares) ==
    HasOwn(formattedStockPrices, date) /\ currentShares # 0

\* stockPrice !== undefined && currentShares > 0
ShouldEmit(formattedStockPrices, date, currentShares) ==
    HasOwn(formattedStockPrices, date) /\ currentShares > 0

\* sortedDates.forEach(date => { ... }): the state after the first n dates
WalkDates(sortedDates, sortedTransactions, formattedStockPrices) ==
    LET walk[n \in 0 .. Len(sortedDates)] ==
            IF n = 0 THEN [currentShares |-> 0, portfolioValues |-> <<>>]
            ELSE LET before == walk[n - 1]
                     date == sortedDates[n]
                     shares == SharesAfterDate(before.currentShares,
                                               sortedTransactions, date)
                 IN  [currentShares |-> shares,
                      portfolioValues |->
                          IF ShouldEmit(formattedStockPrices, date, shares)
                          THEN Append(before.portfolioValues,
                                      [date |-> date,
                                       value |-> shares * Get(formattedStockPrices, date)])
                          ELSE before.portfolioValues]
    IN  walk[Len(sortedDates)]

calculatePortfolioValue(txs, prices) ==
    LET sortedTransactions == SortedTransactions(txs)
        formattedStockPrices == FormattedStockPrices(prices)
        sortedDates == SortedDates(AllDates(sortedTransactions, formattedStockPrices))
    IN  WalkDates(sortedDates, sortedTransactions, formattedStockPrices).portfolioValues

(***************************************************************************)
(* The scenarios of the specification's section 8, as further inputs       *)
(***************************************************************************)
Buy5 == [action |-> "B", date |-> Date(2021, 1, 4), quantity |-> 5]
Sell5 == [action |-> "S", date |-> Date(2021, 1, 5), quantity |-> 5]
Jan6 == FirstEpoch + 2 * SecondsPerDay

BuyOnlyPrices ==
    (FirstEpoch :> [close |-> 100, timestamp |-> FirstEpoch])
    @@ (FirstEpoch + SecondsPerDay :> [close |-> 110, timestamp |-> FirstEpoch + SecondsPerDay])
MissingPrices == (Jan6 :> [close |-> 120, timestamp |-> Jan6])
SameDayPrices ==
    (FirstEpoch :> [close |-> 100, timestamp |-> FirstEpoch])
    @@ (FirstEpoch + 60 :> [close |-> 105, timestamp |-> FirstEpoch + 60])

Scenarios ==
    { <<(<<Buy5>>), BuyOnlyPrices>>,
      <<(<<Buy5, Sell5>>), BuyOnlyPrices>>,
      <<(<<Buy5>>), MissingPrices>>,
      <<(<<Buy5>>), SameDayPrices>> }

Inputs == (TransactionLists \X PriceObjects) \cup Scenarios

(***************************************************************************)
(* Spec: calculatePortfolioValue called on arbitrary inputs, twice         *)
(***************************************************************************)
NullState == [isNull |-> TRUE, version |-> 0, data |-> <<>>]
NoResponse == [kind |-> "none", ok |-> FALSE, json |-> "unread"]
ZeroCounters == [fetches |-> 0, priceSets |-> 0, derivations |-> 0, logged |-> 0]

FuncInit(n) ==
    /\ \E in \in Inputs :
          /\ transactions = in[1]
          /\ stockPrices = in[2]
          /\ givenTransactions = in[1]
          /\ givenStockPrices = in[2]
    /\ portfolioValues = <<>>
    /\ firstValues = <<>>
    /\ pc = "ready"
    /\ calls = n
    /\ phase = "off"
    /\ fetchState = "none"
    /\ response = NoResponse
    /\ stockPricesState = NullState
    /\ portfolioData = <<>>
    /\ renderQueued = FALSE
    /\ effectDeps = 0
    /\ counters = ZeroCounters

\* the first call
Call ==
    /\ pc = "ready"
    /\ portfolioValues' = calculatePortfolioValue(transactions, stockPrices)
    /\ firstValues' = portfolioValues'
    /\ transactions' = ArgumentAfterCall(transactions)
    /\ pc' = "called"
    /\ UNCHANGED <<stockPrices, givenTransactions, givenStockPrices, calls>>
    /\ UNCHANGED compVars

\* a second call in succession, with the arguments as the first call left them
CallAgain ==
    /\ pc = "called"
    /\ calls = 2
    /\ portfolioValues' = calculatePortfolioValue(transactions, stockPrices)
    /\ transactions' = ArgumentAfterCall(transactions)
    /\ pc' = "recalled"
    /\ UNCHANGED <<stockPrices, firstValues, givenTransactions, givenStockPrices, calls>>
    /\ UNCHANGED compVars

Init == FuncInit(1)
Next == Call
Spec == Init /\ [][Next]_vars

TwiceInit == FuncInit(2)
TwiceNext == Call \/ CallAgain
TwiceSpec == TwiceInit /\ [][TwiceNext]_vars

(***************************************************************************)
(* PortfolioValueChart: the two effects, the fetch and the re-render       *)
(***************************************************************************)
\* stockToTransactions['GOOGL']
GOOGL ==
    << [action |-> "B", date |-> Date(2021, 1, 4), quantity |-> 5],
       [action |-> "B", date |-> Date(2022, 1, 4), quantity |-> 5],
       [action |-> "S", date |-> Date(2023, 7, 26), quantity |-> 5] >>

CompInit ==
    /\ transactions = <<>>
    /\ stockPrices = <<>>
    /\ givenTransactions = <<>>
    /\ givenStockPrices = <<>>
    /\ portfolioValues = <<>>
    /\ firstValues = <<>>
    /\ pc = "idle"
    /\ calls = 0
    /\ phase = "rendered"
    /\ fetchState = "none"
    /\ response = NoResponse
    /\ stockPricesState = NullState
    /\ portfolioData = <<>>
    /\ renderQueued = FALSE
    /\ effectDeps = 0
    /\ counters = ZeroCounters

ThrowsOnStatusNever(ok) == FALSE

\* if (!response.ok) throw new Error(...)
ThrowsOnStatus(ok) == ~ok

DepsChangedAlways(lastVersion, version) == TRUE

\* the dependency array [stockPrices]: the effect runs again when the state
\* holds another value (Object.is) than at its last run
DepsChanged(lastVersion, version) == lastVersion # version

\* if (stockPrices) { ... calculatePortfolioValue(...) ... }
DerivesFrom(state) == ~state.isNull

\* The first commit runs both effects in order: the fetch effect calls
\* fetchStockPrices, which runs up to its first await; the derive effect sees
\* stockPrices = null and does nothing.
MountEffects ==
    /\ phase = "rendered"
    /\ phase' = "mounted"
    /\ fetchState' = "pending"
    /\ effectDeps' = stockPricesState.version
    /\ IF DerivesFrom(stockPricesState)
       THEN /\ portfolioData' = calculatePortfolioValue(GOOGL, stockPricesState.data)
            /\ renderQueued' = TRUE
            /\ counters' = [counters EXCEPT !.fetches = @ + 1, !.derivations = @ + 1]
       ELSE /\ counters' = [counters EXCEPT !.fetches = @ + 1]
            /\ UNCHANGED <<portfolioData, renderQueued>>
    /\ UNCHANGED <<response, stockPricesState>>
    /\ UNCHANGED funcVars

\* await fetch(...) rejects (network error): the catch logs it
FetchRejects ==
    /\ fetchState = "pending"
    /\ response' = [response EXCEPT !.kind = "network_error"]
    /\ fetchState' = "failed"
    /\ counters' = [counters EXCEPT !.logged = @ + 1]
    /\ UNCHANGED <<phase, stockPricesState, portfolioData, renderQueued, effectDeps>>
    /\ UNCHANGED funcVars

\* await fetch(...) resolves with a response: a non-OK status throws into the
\* catch, an OK one goes on to await response.json()
FetchResolves ==
    /\ fetchState = "pending"
    /\ \E ok \in BOOLEAN :
          /\ response' = [response EXCEPT !.kind = "http", !.ok = ok]
          /\ IF ThrowsOnStatus(ok)
             THEN /\ fetchState' = "failed"
                  /\ counters' = [counters EXCEPT !.logged = @ + 1]
             ELSE /\ fetchState' = "parsing"
                  /\ UNCHANGED counters
    /\ UNCHANGED <<phase, stockPricesState, portfolioData, renderQueued, effectDeps>>
    /\ UNCHANGED funcVars

\* await response.json() rejects (the body is not JSON): the catch logs it
JsonRejects ==
    /\ fetchState = "parsing"
    /\ response' = [response EXCEPT !.json = "error"]
    /\ fetchState' = "failed"
    /\ counters' = [counters EXCEPT !.logged = @ + 1]
    /\ UNCHANGED <<phase, stockPricesState, portfolioData, renderQueued, effectDeps>>
    /\ UNCHANGED funcVars

\* the bodies response.json() can resolve with: a price object, or JSON null
Bodies == {[isNull |-> FALSE, data |-> o] : o \in PriceObjects}
          \cup {[isNull |-> TRUE, data |-> <<>>]}

\* Object.is(state, next): null is null; a parsed object is a fresh object
SameValue(state, next) == state.isNull /\ next.isNull

\* await response.json() resolves with the parsed body: setStockPrices(data),
\* which schedules a render unless the state already holds that value
JsonResolves ==
    /\ fetchState = "parsing"
    /\ \E body \in Bodies :
          IF SameValue(stockPricesState, body)
          THEN UNCHANGED <<stockPricesState, renderQueued, counters>>
          ELSE /\ stockPricesState' = [isNull |-> body.isNull,
                                       version |-> stockPricesState.version + 1,
                                       data |-> body.data]
               /\ renderQueued' = TRUE
               /\ counters' = [counters EXCEPT !.priceSets = @ + 1]
    /\ response' = [response EXCEPT !.json = "parsed"]
    /\ fetchState' = "resolved"
    /\ UNCHANGED <<phase, portfolioData, effectDeps>>
    /\ UNCHANGED funcVars

\* A scheduled re-render commits; the derive effect runs when its dependency
\* changed, and setPortfolioData of the fresh array schedules the next render.
Rerender ==
    /\ phase = "mounted"
    /\ renderQueued
    /\ IF DepsChanged(effectDeps, stockPricesState.version)
       THEN /\ effectDeps' = stockPricesState.version
            /\ IF DerivesFrom(stockPricesState)
               THEN /\ portfolioData'
                          = calculatePortfolioValue(GOOGL, stockPricesState.data)
                    /\ renderQueued' = TRUE
                    /\ counters' = [counters EXCEPT !.derivations = @ + 1]
               ELSE /\ renderQueued' = FALSE
                    /\ UNCHANGED <<portfolioData, counters>>
       ELSE /\ renderQueued' = FALSE
            /\ UNCHANGED <<portfolioData, counters, effectDeps>>
    /\ UNCHANGED <<phase, fetchState, response, stockPricesState>>
    /\ UNCHANGED funcVars

CompNext ==
    \/ MountEffects
    \/ FetchRejects
    \/ FetchResolves
    \/ JsonRejects
    \/ JsonResolves
    \/ Rerender

CompSpec == CompInit /\ [][CompNext]_vars

(***************************************************************************)
(* Reference notions the claims are stated in                              *)
(***************************************************************************)
CalendarDays == {Date(2021, 1, d) : d \in 3 .. 7}
\* the first call has returned, and nothing has run since
returned == pc = "called"

Signed(t) == IF t.action = "B" THEN t.quantity ELSE 0 - t.quantity

\* Buy quantities minus Sell quantities over the transactions dated on or before day
RunningTotal(txs, day) ==
    LET upTo[n \in 0 .. Len(txs)] ==
            IF n = 0 THEN 0
            ELSE upTo[n - 1]
                 + (IF getTime(txs[n].date) <= getTime(day) THEN Signed(txs[n]) ELSE 0)
    IN  upTo[Len(txs)]

\* the property names of the entries whose timestamp falls on day
KeysOfDay(prices, day) == {k \in DOMAIN prices : formatDate(prices[k].timestamp) = day}
LastKeyOfDay(prices, day) ==
    LET names == KeysOfDay(prices, day)
    IN  CHOOSE k \in names : \A j \in names : j <= k
PointDates == {portfolioValues[i].date : i \in DOMAIN portfolioValues}
PointOf(day) == portfolioValues[CHOOSE i \in DOMAIN portfolioValues :
                                    portfolioValues[i].date = day]
TransactedDays == {transactions[i].date : i \in DOMAIN transactions}

\* C1: a point is emitted for day d exactly when the day-keyed price map has a
\* price for d and the signed running total of shares up to and including d is
\* positive, and its value is that running total times the day's price.
C1_EmitIffPricedAndHeld ==
    returned =>
        LET dayPrices == FormattedStockPrices(stockPrices)
        IN  /\ PointDates \subseteq CalendarDays
            /\ \A d \in CalendarDays :
                  (d \in PointDates)
                      <=> (HasOwn(dayPrices, d) /\ RunningTotal(transactions, d) > 0)
            /\ \A i \in DOMAIN portfolioValues :
                  portfolioValues[i].value
                      = RunningTotal(transactions, portfolioValues[i].date)
                        * Get(dayPrices, portfolioValues[i].date)

\* a held day with its point, and a priced day left out for its negative total
C1_Witness ==
    /\ returned
    /\ \E d \in PointDates : RunningTotal(transactions, d) = 1 /\ PointOf(d).value = 2
    /\ \E d \in CalendarDays :
          KeysOfDay(stockPrices, d) # {} /\ RunningTotal(transactions, d) < 0

\* C2: the output is sorted strictly ascending by calendar date, so holds at
\* most one point per date, and every emitted date is the calendar day of some
\* entry of the price mapping.
C2_StrictlyAscendingPricedDays ==
    returned =>
        /\ \A i, j \in DOMAIN portfolioValues :
              i < j => getTime(portfolioValues[i].date) < getTime(portfolioValues[j].date)
        /\ \A i \in DOMAIN portfolioValues :
              KeysOfDay(stockPrices, portfolioValues[i].date) # {}

\* two points, from transactions listed latest first and prices keyed latest first
C2_Witness ==
    /\ returned
    /\ Len(portfolioValues) = 2
    /\ Len(transactions) = 2
    /\ getTime(transactions[1].date) > getTime(transactions[2].date)
    /\ DOMAIN stockPrices = {FirstEpoch, FirstEpoch + 1}
    /\ formatDate(stockPrices[FirstEpoch].timestamp) = Date(2021, 1, 5)
    /\ formatDate(stockPrices[FirstEpoch + 1].timestamp) = Date(2021, 1, 4)

\* C3 as stated: every point of a date with positive holdings has a value
\* above 0, whatever the closing price, and no point is emitted for a date
\* whose running total is 0 or less.
C3_Original ==
    returned =>
        \A i \in DOMAIN portfolioValues :
            /\ RunningTotal(transactions, portfolioValues[i].date) > 0
            /\ portfolioValues[i].value > 0

\* C3 amended: no point is emitted for a date whose running total is 0 or
\* less, and a point's value is above 0 exactly when that day's closing price
\* is above 0 (a close of 0 or less gives a point of value 0 or less).
C3_PositiveValueIffPositiveClose ==
    returned =>
        LET dayPrices == FormattedStockPrices(stockPrices)
        IN  \A i \in DOMAIN portfolioValues :
                /\ RunningTotal(transactions, portfolioValues[i].date) > 0
                /\ (portfolioValues[i].value > 0
                        <=> Get(dayPrices, portfolioValues[i].date) > 0)

\* a held day whose close of 0 gives a point of value 0, and a priced day
\* that is not held and has no point
C3_Witness ==
    /\ returned
    /\ \E i \in DOMAIN portfolioValues :
          /\ portfolioValues[i].value = 0
          /\ RunningTotal(transactions, portfolioValues[i].date) > 0
    /\ \E d \in CalendarDays \ PointDates :
          KeysOfDay(stockPrices, d) # {} /\ RunningTotal(transactions, d) <= 0

LastEntriesOnly(prices) ==
    LET day == [k \in DOMAIN prices |-> formatDate(prices[k].timestamp)]
        kept == {k \in DOMAIN prices : \A j \in DOMAIN prices : day[j] = day[k] => j <= k}
    IN  [k \in kept |-> prices[k]]

\* C6: when several entries of the price mapping fall on one calendar day, the
\* price used for the day is the close of the entry iterated last, and the
\* earlier entries of that day have no effect on the output: without them the
\* output is the same.
C6_LastEntryOfDayWins ==
    returned =>
        LET dayPrices == FormattedStockPrices(stockPrices)
        IN  /\ \A d \in CalendarDays :
                  KeysOfDay(stockPrices, d) # {} =>
                      /\ HasOwn(dayPrices, d)
                      /\ Get(dayPrices, d) = stockPrices[LastKeyOfDay(stockPrices, d)].close
            /\ LET lastOnly == LastEntriesOnly(stockPrices)
               IN  lastOnly # stockPrices =>
                       portfolioValues = calculatePortfolioValue(transactions, lastOnly)
            /\ (transactions = <<Buy5>> /\ stockPrices = SameDayPrices)
                  => portfolioValues = <<[date |-> Date(2021, 1, 4), value |-> 525]>>

\* two entries of one day, the one iterated last has the earlier timestamp and
\* another close, and the day has a point
C6_Witness ==
    /\ returned
    /\ \E d \in PointDates :
          /\ KeysOfDay(stockPrices, d) = {FirstEpoch, FirstEpoch + 1}
          /\ stockPrices[FirstEpoch + 1].timestamp < stockPrices[FirstEpoch].timestamp
          /\ stockPrices[FirstEpoch + 1].close # stockPrices[FirstEpoch].close

\* C7: a day with a price and no transaction has a point whenever the holdings
\* carried over from earlier days are positive, valued at the carried-over
\* shares times that day's price (Buy 5 on 2021-01-04 with closes 100 and 110
\* on 2021-01-04 and 2021-01-05 gives 500 and 550).
C7_CarriedHoldingsMarkedToMarket ==
    returned =>
        /\ \A d \in CalendarDays \ TransactedDays :
              (KeysOfDay(stockPrices, d) # {} /\ RunningTotal(transactions, d) > 0)
              => /\ d \in PointDates
                 /\ PointOf(d).value
                       = RunningTotal(transactions, d)
                         * stockPrices[LastKeyOfDay(stockPrices, d)].close
        /\ (transactions = <<Buy5>> /\ stockPrices = BuyOnlyPrices)
              => portfolioValues = << [date |-> Date(2021, 1, 4), value |-> 500],
                                      [date |-> Date(2021, 1, 5), value |-> 550] >>

\* the Buy-only scenario has returned its two points
C7_Witness ==
    /\ returned
    /\ transactions = <<Buy5>>
    /\ stockPrices = BuyOnlyPrices
    /\ Len(portfolioValues) = 2

\* C8: a transaction dated on a day without a price gives no point for that
\* day, and its quantity still counts in the running total that values every
\* later priced day (Buy 5 on 2021-01-04 with a price only on 2021-01-06 gives
\* the single point of 2021-01-06).
C8_UnpricedDayStillCounted ==
    returned =>
        /\ \A d \in TransactedDays :
              KeysOfDay(stockPrices, d) = {} =>
                  /\ d \notin PointDates
                  /\ \A e \in CalendarDays :
                        (/\ getTime(e) > getTime(d)
                         /\ KeysOfDay(stockPrices, e) # {}
                         /\ RunningTotal(transactions, e) > 0)
                        => /\ e \in PointDates
                           /\ PointOf(e).value
                                 = RunningTotal(transactions, e)
                                   * stockPrices[LastKeyOfDay(stockPrices, e)].close
        /\ (transactions = <<Buy5>> /\ stockPrices = MissingPrices)
              => portfolioValues = <<[date |-> Date(2021, 1, 6), value |-> 5 * 120]>>

\* the missing-price scenario has returned its single point
C8_Witness ==
    /\ returned
    /\ transactions = <<Buy5>>
    /\ stockPrices = MissingPrices
    /\ Len(portfolioValues) = 1

\* txs with the elements at positions i and i + 1 exchanged
Swapped(txs, i) ==
    [n \in 1 .. Len(txs) |->
        IF n = i THEN txs[i + 1] ELSE IF n = i + 1 THEN txs[i] ELSE txs[n]]

\* C10: the output does not depend on the order of the transaction list.
\* Exchanging any two neighbours of the list, with the same price mapping,
\* gives the same output sequence; every permutation is a chain of such
\* exchanges, and every list of the chain is itself among the inputs.
C10_OrderOfTransactionsIrrelevant ==
    returned =>
        \A i \in 1 .. Len(transactions) - 1 :
            transactions[i] # transactions[i + 1] =>
                calculatePortfolioValue(Swapped(transactions, i), stockPrices)
                    = portfolioValues

\* a Sell listed before the Buy of the same date that covers it
C10_Witness ==
    /\ returned
    /\ Len(transactions) = 2
    /\ transactions[1].action = "S"
    /\ transactions[2].action = "B"
    /\ transactions[1].date = transactions[2].date
    /\ transactions[1].quantity < transactions[2].quantity
    /\ portfolioValues # <<>>

\* the fetch has failed: a network error, a non-OK status, or a body that does not parse
fetchFailed ==
    \/ response.kind = "network_error"
    \/ response.kind = "http" /\ ~response.ok
    \/ response.json = "error"
\* the fetch has resolved successfully: an OK response whose body parsed
fetchSucceeded == response.kind = "http" /\ response.ok /\ response.json = "parsed"

\* C5: the derivation runs only after the fetch has resolved successfully; once
\* the fetch has failed (non-OK status, network error or parse error) the price
\* state is unset, the derivation has not run, the derived series is empty,
\* and no second fetch is made.
C5_DeriveOnlyAfterSuccessfulFetch ==
    /\ counters.derivations > 0 => fetchSucceeded
    /\ ~stockPricesState.isNull => fetchSucceeded
    /\ counters.fetches <= 1
    /\ fetchFailed =>
          /\ stockPricesState = NullState
          /\ counters.derivations = 0
          /\ portfolioData = <<>>
          /\ ~renderQueued

\* a non-OK response has been logged and nothing is left to run
C5_Witness ==
    /\ response.kind = "http"
    /\ ~response.ok
    /\ fetchState = "failed"
    /\ counters.logged = 1
    /\ ~ENABLED CompNext

\* C9: the derivation runs once for each change of the price data, never more;
\* once no render is pending it has run for every change, and after a run the
\* displayed series is the derivation of the price data set most recently.
C9_DerivedOncePerPriceChange ==
    /\ counters.derivations <= counters.priceSets
    /\ (phase = "mounted" /\ ~renderQueued) =>
          counters.derivations = counters.priceSets
    /\ counters.derivations > 0 =>
          /\ effectDeps = stockPricesState.version
          /\ portfolioData = calculatePortfolioValue(GOOGL, stockPricesState.data)

\* prices were set once, the derivation ran once, and the renders have settled
C9_Witness ==
    /\ counters.priceSets = 1
    /\ counters.derivations = 1
    /\ ~renderQueued
    /\ Len(portfolioData) = 2
====
